---- MODULE Spec2Model ----
(***************************************************************************)
(* A model of the Direct3D 11 resource factory of gfx                      *)
(* (src/backend/dx11/src/factory.rs).                                      *)
(*                                                                         *)
(* The factory is modelled as a state machine over                         *)
(*   - the factories that exist (the original and its clones), each with   *)
(*     its own vs_cache,                                                   *)
(*   - the handle store shared by all of them (share.handles),             *)
(*   - the reference count of the native device, and                       *)
(*   - a record of the last call: its arguments, its result, the native    *)
(*     device calls it made and what it logged.                            *)
(* The native device is an external collaborator: each native creation     *)
(* call succeeds or fails nondeterministically.                            *)
(*                                                                         *)
(* Machine integers are scaled down: usize is UsizeBits wide, a native     *)
(* UINT is UintBits wide and a texture Layer (u16 in the source) is        *)
(* LayerBits wide.  All arithmetic that can wrap in the source wraps here  *)
(* at the scaled width.                                                    *)
(***************************************************************************)
EXTENDS Integers, Sequences, FiniteSets, TLC

VARIABLES
    usize_bits,   \* width of usize on the build target
    overflow_checks, \* the build checks integer overflow (debug) or wraps (release)
    factories,    \* Seq of [live, vs_cache]: every Factory value ever built
    device_refs,  \* reference count of the ID3D11Device
    buffers,      \* share.handles: registered buffers
    textures,     \* share.handles: registered textures
    shaders,      \* share.handles: registered shaders
    programs,     \* share.handles: registered programs
    psos,         \* share.handles: registered pipeline states
    views,        \* share.handles: registered RTVs / DSVs / SRVs
    samplers,     \* share.handles: registered samplers
    last,         \* the last call: [op, f, arg, result, err, native, log]
    script        \* the calls a scripted run still makes (the caller's program)

vars == <<usize_bits, overflow_checks, factories, device_refs, buffers, textures, shaders,
          programs, psos, views, samplers, last, script>>

store == <<buffers, textures, shaders, programs, psos, views, samplers>>

-----------------------------------------------------------------------------
(* Bounds of the model *)

\* width of a native UINT (u32 in the source), scaled
UintBits == 7
\* extra bits of usize over UINT on a 64-bit target (32 in the source), scaled
WideExtraBits == 1
\* width of a texture Layer (u16 in the source), scaled; 6 * 2^LayerBits fits a UINT
LayerBits == 4
\* layer counts and depths of the textures that views are requested on: 0..MaxLayers
MaxLayers == 3
\* layer selectors tried: 0..MaxLayerId
MaxLayerId == 7
\* mip levels tried: 0..MaxLevel
MaxLevel == 2
\* width of a mip Level (u8 in the source), scaled
LevelBits == 3
\* factories ever built (the original and its clones)
MaxFactories == 2
\* registered shaders, programs and pipeline states
MaxShaders == 3
MaxPrograms == 1
MaxPsos == 1
\* attribute slots of a pipeline descriptor (MAX_VERTEX_ATTRIBUTES, scaled) and
\* bytes of a shader bytecode
MaxAttrs == 3

-----------------------------------------------------------------------------
(* Machine arithmetic *)

RECURSIVE Pow2(_)
Pow2(n) == IF n = 0 THEN 1 ELSE 2 * Pow2(n - 1)

\* x as UINT: an `as` cast truncates
AsUint(x) == x % Pow2(UintBits)

\* the widths usize can have: a 32-bit target (usize = UINT) or a 64-bit one
UsizeWidths == {UintBits, UintBits + WideExtraBits}

UsizeMax == Pow2(usize_bits) - 1

\* x & !0xF on a non-negative x
AlignMask == 16
ClearLow4(x) == x - (x % AlignMask)

\* (info.size + 0xF) & !0xF in usize arithmetic.  The addition overflows when
\* size > usize::MAX - 15: a build with overflow checks panics there (RoleArm),
\* any other build wraps, as here, and the size assertion that follows fails.
RoundUp16(size) == ClearLow4((size + (AlignMask - 1)) % Pow2(usize_bits))

-----------------------------------------------------------------------------
(* The last-call record *)

NoCall == [op |-> "none", f |-> 0, arg |-> <<>>, result |-> "none",
           err |-> <<>>, native |-> <<>>, log |-> "none"]

Call(op, f, arg, result, err, native, log) ==
    [op |-> op, f |-> f, arg |-> arg, result |-> result, err |-> err,
     native |-> native, log |-> log]

\* a native device call and its HRESULT
Native(call, desc, ok) == [call |-> call, desc |-> desc, ok |-> ok]

LiveFactories == {f \in 1..Len(factories) : factories[f].live}

-----------------------------------------------------------------------------
(* Buffers *)

BufferRoles == {"Vertex", "Index", "Uniform"}
BufferUsages == {"Const", "Dynamic"}
BindFlags == {"RENDER_TARGET", "DEPTH_STENCIL", "SHADER_RESOURCE"}
Binds == SUBSET BindFlags
Strides == {0, 2, 3, 4}
\* sizes around every 16-byte boundary of the usize range
BufferSizes == {s \in 0..UsizeMax : s % AlignMask \in {0, 1, AlignMask - 1}}

BufferInfos == [role : BufferRoles, usage : BufferUsages, bind : Binds,
                size : BufferSizes, stride : Strides]

\* data::map_usage and data::map_bind: pure lookups into native codes
map_usage(usage) == <<"D3D11_USAGE", usage>>
map_bind(bind) == {<<"D3D11_BIND", b>> : b \in bind}

\* the index-stride test of the Index arm
IndexStrideBad_m(stride) == stride > 4
IndexStrideBad(stride) == stride # 2 /\ stride # 4

\* info.bind.contains(RENDER_TARGET) | info.bind.contains(DEPTH_STENCIL)
TargetBind_rt(bind) == "RENDER_TARGET" \in bind
TargetBind(bind) == "RENDER_TARGET" \in bind \/ "DEPTH_STENCIL" \in bind

\* the (subind, size) match on info.role, with the early return of the Index arm
\* and the overflow of the Uniform arm
RoleArm(info) ==
    CASE info.role = "Vertex" ->
            [exit |-> "go", subind |-> <<"D3D11_BIND", "VERTEX_BUFFER">>, size |-> info.size]
      [] info.role = "Index" ->
            IF IndexStrideBad(info.stride)
            THEN [exit |-> "Other", subind |-> <<>>, size |-> 0]
            ELSE [exit |-> "go", subind |-> <<"D3D11_BIND", "INDEX_BUFFER">>, size |-> info.size]
      [] info.role = "Uniform" ->
            IF overflow_checks /\ info.size + (AlignMask - 1) > UsizeMax
            THEN [exit |-> "Panic", subind |-> <<>>, size |-> 0]
            ELSE [exit |-> "go", subind |-> <<"D3D11_BIND", "CONSTANT_BUFFER">>,
                  size |-> RoundUp16(info.size)]

\* everything create_buffer_internal does before the native call:
\* "Other", "Panic" (the size assertion), "UnsupportedBind", or the native desc
BufferPlan(info) ==
    LET arm == RoleArm(info) IN
    IF arm.exit = "Other" THEN [exit |-> "Other", log |-> "index stride"]
    ELSE IF arm.exit = "Panic" THEN [exit |-> "Panic", log |-> "add overflow"]
    ELSE IF ~(arm.size >= info.size) THEN [exit |-> "Panic", log |-> "assert size"]
    ELSE IF TargetBind(info.bind) THEN [exit |-> "UnsupportedBind", log |-> "none"]
    ELSE [exit |-> "go", log |-> "none",
          desc |-> [ByteWidth |-> AsUint(arm.size),
                    Usage |-> map_usage(info.usage),
                    BindFlags |-> map_bind(info.bind) \cup {arm.subind},
                    MiscFlags |-> 0,
                    StructureByteStride |-> 0]]

\* Factory::create_buffer_internal(info, raw_data); hr_ok is the device's answer
create_buffer_internal(op, f, info, has_data, hr_ok) ==
    LET plan == BufferPlan(info)
        arg == [info |-> info, has_data |-> has_data] IN
    IF plan.exit # "go"
    THEN /\ last' = Call(op, f, arg, plan.exit,
                         IF plan.exit = "UnsupportedBind" THEN info.bind ELSE <<>>,
                         <<>>, plan.log)
         /\ UNCHANGED buffers
    ELSE LET nat == Native("CreateBuffer",
                           [desc |-> plan.desc, init |-> has_data], hr_ok) IN
         IF hr_ok
         THEN /\ buffers' = Append(buffers, [native |-> Len(buffers) + 1, info |-> info])
              /\ last' = Call(op, f, arg, "Ok", Len(buffers) + 1, <<nat>>, "none")
         ELSE /\ UNCHANGED buffers
              /\ last' = Call(op, f, arg, "Other", <<>>, <<nat>>, "native failure")

\* Factory::create_buffer_raw
create_buffer_raw(f, info, hr_ok) ==
    /\ f \in LiveFactories
    /\ create_buffer_internal("create_buffer_raw", f, info, FALSE, hr_ok)
    /\ UNCHANGED <<usize_bits, overflow_checks, samplers, factories, device_refs,
                   textures, shaders, programs, psos, views>>

\* Factory::create_buffer_const_raw: usage Const, size = data.len()
create_buffer_const_raw(f, len, stride, role, bind, hr_ok) ==
    /\ f \in LiveFactories
    /\ create_buffer_internal("create_buffer_const_raw", f,
            [role |-> role, usage |-> "Const", bind |-> bind,
             size |-> len, stride |-> stride], TRUE, hr_ok)
    /\ UNCHANGED <<usize_bits, overflow_checks, samplers, factories, device_refs,
                   textures, shaders, programs, psos, views>>

-----------------------------------------------------------------------------
(* Textures *)

\* Option<T>: None is <<>>, Some(x) is <<x>>
None == <<>>
Some(x) == <<x>>

LayerMax == Pow2(LayerBits) - 1

\* core::tex::Kind; the fields a kind does not have are 0
TexSize == 4
KindD1 == [k |-> "D1", w |-> TexSize, h |-> 0, d |-> 0, aa |-> "Single"]
KindD1Array(n) == [k |-> "D1Array", w |-> TexSize, h |-> 0, d |-> n, aa |-> "Single"]
KindD2(aa) == [k |-> "D2", w |-> TexSize, h |-> TexSize, d |-> 0, aa |-> aa]
KindD2Array(n, aa) == [k |-> "D2Array", w |-> TexSize, h |-> TexSize, d |-> n, aa |-> aa]
KindD3(depth) == [k |-> "D3", w |-> TexSize, h |-> TexSize, d |-> depth, aa |-> "Single"]
KindCube == [k |-> "Cube", w |-> TexSize, h |-> 0, d |-> 0, aa |-> "Single"]
KindCubeArray(n) == [k |-> "CubeArray", w |-> TexSize, h |-> 0, d |-> n, aa |-> "Single"]

AaModes == {"Single", "Multi"}

KindsUpTo(maxd) ==
    {KindD1, KindCube}
    \cup {KindD2(aa) : aa \in AaModes}
    \cup {KindD1Array(n) : n \in 0..maxd}
    \cup {KindD2Array(n, aa) : n \in 0..maxd, aa \in AaModes}
    \cup {KindD3(n) : n \in 0..maxd}
    \cup {KindCubeArray(n) : n \in 0..maxd}

SurfaceTypes == {"R8_G8_B8_A8", "D24_S8", "R4_G4"}
ChannelTypes == {"Unorm", "Uint", "Float"}

\* data::map_surface: the typeless native format of a surface type, if any
map_surface(surface) ==
    IF surface = "R4_G4" THEN None ELSE Some(<<"DXGI_TYPELESS", surface>>)

\* data::map_format: the native format of (surface, channel), if any
map_format(surface, channel, is_target) ==
    CASE surface = "R4_G4" -> None
      [] surface = "R8_G8_B8_A8" ->
            IF channel = "Float" THEN None ELSE Some(<<"DXGI", surface, channel>>)
      [] surface = "D24_S8" ->
            IF is_target THEN Some(<<"DXGI", "D24_UNORM_S8_UINT">>)
            ELSE IF channel = "Unorm" THEN Some(<<"DXGI", "R24_UNORM_X8_TYPELESS">>)
            ELSE None

\* SurfaceType::get_total_bits
get_total_bits(surface) == IF surface = "R4_G4" THEN 8 ELSE 32

\* Factory.use_texture_format_hint: set to false by Factory::new, never changed
use_texture_format_hint == FALSE

\* 6 * d in Layer arithmetic
SixTimesOverflows(d) == 6 * d > LayerMax
SixTimes(d) == (6 * d) % Pow2(LayerBits)

\* the match on desc.kind: which native creation, with which array size,
\* anti-alias mode and extra misc flag
KindArm(kind) ==
    CASE kind.k = "D1" -> [path |-> "CreateTexture1D", array |-> Some(1), aa |-> "none", cube |-> FALSE]
      [] kind.k = "D1Array" -> [path |-> "CreateTexture1D", array |-> Some(kind.d), aa |-> "none", cube |-> FALSE]
      [] kind.k = "D2" -> [path |-> "CreateTexture2D", array |-> Some(1), aa |-> kind.aa, cube |-> FALSE]
      [] kind.k = "D2Array" -> [path |-> "CreateTexture2D", array |-> Some(kind.d), aa |-> kind.aa, cube |-> FALSE]
      [] kind.k = "D3" -> [path |-> "CreateTexture3D", array |-> None, aa |-> "none", cube |-> FALSE]
      [] kind.k = "Cube" -> [path |-> "CreateTexture2D", array |-> Some(6 * 1), aa |-> "Single", cube |-> TRUE]
      [] kind.k = "CubeArray" -> [path |-> "CreateTexture2D", array |-> Some(SixTimes(kind.d)), aa |-> "Single", cube |-> TRUE]

\* everything create_texture_internal does before the native call
TexturePlan(desc, hint0, init_opt) ==
    LET hint == IF ~use_texture_format_hint \/ "DEPTH_STENCIL" \in desc.bind
                THEN None ELSE hint0
        format == IF hint # None THEN map_format(desc.format, hint[1], TRUE)
                  ELSE map_surface(desc.format)
        misc == IF init_opt = Some(TRUE) THEN {"GENERATE_MIPS"} ELSE {}
        arm == KindArm(desc.kind) IN
    IF format = None THEN [exit |-> "Format", err |-> <<desc.format, hint>>]
    ELSE IF desc.kind.k = "CubeArray" /\ overflow_checks /\ SixTimesOverflows(desc.kind.d)
    THEN [exit |-> "Panic", err |-> <<>>]
    ELSE [exit |-> "go", err |-> <<>>,
          call |-> arm.path,
          desc |-> [Width |-> desc.kind.w,
                    Height |-> IF arm.cube THEN desc.kind.w ELSE desc.kind.h,
                    Depth |-> IF desc.kind.k = "D3" THEN desc.kind.d ELSE 0,
                    MipLevels |-> desc.levels,
                    ArraySize |-> arm.array,
                    Format |-> format[1],
                    SampleDesc |-> arm.aa,
                    Usage |-> map_usage(desc.usage),
                    BindFlags |-> map_bind(desc.bind),
                    MiscFlags |-> misc \cup (IF arm.cube THEN {"TEXTURECUBE"} ELSE {}),
                    bytes_per_texel |-> get_total_bits(desc.format) \div 8,
                    init |-> init_opt # None]]

\* Factory::create_texture_internal(desc, hint, init_opt); hr_ok is the device's answer
create_texture_internal(op, f, desc, hint, init_opt, hr_ok) ==
    LET plan == TexturePlan(desc, hint, init_opt)
        arg == [desc |-> desc, hint |-> hint, init_opt |-> init_opt] IN
    IF plan.exit # "go"
    THEN /\ last' = Call(op, f, arg, plan.exit, plan.err, <<>>, "none")
         /\ UNCHANGED textures
    ELSE LET nat == Native(plan.call, plan.desc, hr_ok) IN
         IF hr_ok
         THEN /\ textures' = Append(textures,
                     [native |-> <<plan.call, Len(textures) + 1>>, info |-> desc])
              /\ last' = Call(op, f, arg, "Ok", Len(textures) + 1, <<nat>>, "none")
         ELSE /\ UNCHANGED textures
              /\ last' = Call(op, f, arg, "Kind", <<>>, <<nat>>, "native failure")

\* Factory::create_texture_raw
create_texture_raw(f, desc, hint, hr_ok) ==
    /\ f \in LiveFactories
    /\ create_texture_internal("create_texture_raw", f, desc, hint, None, hr_ok)
    /\ UNCHANGED <<usize_bits, overflow_checks, samplers, factories, device_refs,
                   buffers, shaders, programs, psos, views>>

\* Factory::create_texture_with_data
create_texture_with_data(f, desc, channel, mipmap, hr_ok) ==
    /\ f \in LiveFactories
    /\ create_texture_internal("create_texture_with_data", f, desc,
                               Some(channel), Some(mipmap), hr_ok)
    /\ UNCHANGED <<usize_bits, overflow_checks, samplers, factories, device_refs,
                   buffers, shaders, programs, psos, views>>

-----------------------------------------------------------------------------
(* Render-target and depth-stencil views *)

\* a resolved view: its dimension and the three words of its union
Dim(dim, a, b, c) == [exit |-> "go", dim |-> dim, extra |-> <<a, b, c>>]
BadLevel(level) == [exit |-> "BadLevel", err |-> level]
BadLayer(lid) == [exit |-> "BadLayer", err |-> lid]

\* the end of a single-slice range starting at lid, as the source writes it
SliceEnd(lid) == 1 + lid

\* the arms shared by the render-target and the depth-stencil match on
\* (kind, layer), in source order, from the Cube arms on
CubeArms(kind, layer, level) ==
    IF kind.k = "Cube" /\ layer = None
        THEN Dim("TEXTURE2DARRAY", level, 0, 6)
    ELSE IF kind.k = "Cube" /\ layer # None /\ layer[1] < 6
        THEN Dim("TEXTURE2DARRAY", level, layer[1], SliceEnd(layer[1]))
    ELSE IF kind.k = "CubeArray" /\ layer = None
        THEN Dim("TEXTURE2DARRAY", level, 0, 6 * kind.d)
    ELSE IF kind.k = "CubeArray" /\ layer # None /\ layer[1] < kind.d
        THEN Dim("TEXTURE2DARRAY", level, 6 * layer[1], 6 * SliceEnd(layer[1]))
    ELSE IF layer = None THEN BadLevel(level)
    ELSE BadLayer(layer[1])

\* ... and up to the D3 arms
ArrayArms(kind, layer, level) ==
    IF kind.k = "D1" /\ layer = None
        THEN Dim("TEXTURE1D", level, 0, 0)
    ELSE IF kind.k = "D1Array" /\ layer # None /\ layer[1] < kind.d
        THEN Dim("TEXTURE1DARRAY", level, layer[1], SliceEnd(layer[1]))
    ELSE IF kind.k = "D1Array" /\ layer = None
        THEN Dim("TEXTURE1DARRAY", level, 0, kind.d)
    ELSE IF kind.k = "D2" /\ kind.aa = "Single" /\ layer = None
        THEN Dim("TEXTURE2D", level, 0, 0)
    ELSE IF kind.k = "D2" /\ layer = None /\ level = 0
        THEN Dim("TEXTURE2DMS", 0, 0, 0)
    ELSE IF kind.k = "D2Array" /\ kind.aa = "Single" /\ layer = None
        THEN Dim("TEXTURE2DARRAY", level, 0, kind.d)
    ELSE IF kind.k = "D2Array" /\ kind.aa = "Single" /\ layer # None /\ layer[1] < kind.d
        THEN Dim("TEXTURE2DARRAY", level, layer[1], SliceEnd(layer[1]))
    ELSE IF kind.k = "D2Array" /\ layer = None /\ level = 0
        THEN Dim("TEXTURE2DMSARRAY", 0, kind.d, 0)
    ELSE IF kind.k = "D2Array" /\ layer # None /\ level = 0 /\ layer[1] < kind.d
        THEN Dim("TEXTURE2DMSARRAY", layer[1], SliceEnd(layer[1]), 0)
    ELSE [exit |-> "next"]

\* the D3 arms of view_texture_as_render_target_raw
RtvD3Arms(kind, layer, level) ==
    IF layer = None THEN Dim("TEXTURE3D", level, 0, kind.d)
    ELSE IF layer[1] < kind.d
        THEN Dim("TEXTURE3D", level, layer[1], SliceEnd(layer[1]))
    ELSE BadLayer(layer[1])

\* the D3 arm of view_texture_as_depth_stencil_raw
DsvD3Arm_rtv(kind, layer, level) == RtvD3Arms(kind, layer, level)
DsvD3Arm(kind, layer, level) == [exit |-> "Unsupported", err |-> <<>>]

\* the (dim, extra) match of view_texture_as_depth_stencil_raw
DsvResolve(kind, layer, level) ==
    LET a == ArrayArms(kind, layer, level) IN
    IF a.exit # "next" THEN a
    ELSE IF kind.k = "D3" THEN DsvD3Arm(kind, layer, level)
    ELSE CubeArms(kind, layer, level)

\* the (dim, extra) match of view_texture_as_render_target_raw
RtvResolve_m(kind, layer, level) == DsvResolve(kind, layer, level)
RtvResolve(kind, layer, level) ==
    LET a == ArrayArms(kind, layer, level) IN
    IF a.exit # "next" THEN a
    ELSE IF kind.k = "D3" THEN RtvD3Arms(kind, layer, level)
    ELSE CubeArms(kind, layer, level)

\* Kind::get_level_dimensions
get_level_dimensions(kind, level) == <<"level dimensions", kind, level>>
\* data::map_dsv_flags
map_dsv_flags(flags) == <<"D3D11_DSV", flags>>

\* Factory::view_texture_as_render_target_raw(htex, desc)
view_texture_as_render_target_raw(f, htex, desc, hr_ok) ==
    LET info == textures[htex].info
        r == RtvResolve(info.kind, desc.layer, desc.level)
        format == map_format(info.format, desc.channel, TRUE)
        arg == [htex |-> htex, desc |-> desc]
        op == "view_texture_as_render_target_raw" IN
    /\ f \in LiveFactories
    /\ htex \in 1..Len(textures)
    /\ IF r.exit # "go"
       THEN /\ last' = Call(op, f, arg, r.exit, r.err, <<>>, "none")
            /\ UNCHANGED <<views, factories>>
       ELSE IF format = None
       THEN /\ last' = Call(op, f, arg, "Channel", desc.channel, <<>>, "none")
            /\ UNCHANGED <<views, factories>>
       ELSE LET nat == Native("CreateRenderTargetView",
                          [resource |-> textures[htex].native, Format |-> format[1],
                           ViewDimension |-> r.dim, u |-> r.extra], hr_ok) IN
            /\ factories' = [factories EXCEPT ![f].frame_handles = @ \cup {<<"texture", htex>>}]
            /\ IF ~hr_ok
               THEN /\ last' = Call(op, f, arg, "Unsupported", <<>>, <<nat>>, "native failure")
                    /\ UNCHANGED views
               ELSE /\ views' = Append(views, [type |-> "rtv", native |-> Len(views) + 1,
                           tex |-> htex,
                           size |-> get_level_dimensions(info.kind, desc.level)])
                    /\ last' = Call(op, f, arg, "Ok", Len(views) + 1, <<nat>>, "none")
    /\ UNCHANGED <<usize_bits, overflow_checks, samplers, device_refs,
                   buffers, textures, shaders, programs, psos>>

\* Factory::view_texture_as_depth_stencil_raw(htex, desc)
view_texture_as_depth_stencil_raw(f, htex, desc, hr_ok) ==
    LET info == textures[htex].info
        r == DsvResolve(info.kind, desc.layer, desc.level)
        channel == "Uint"
        format == map_format(info.format, channel, TRUE)
        arg == [htex |-> htex, desc |-> desc]
        op == "view_texture_as_depth_stencil_raw" IN
    /\ f \in LiveFactories
    /\ htex \in 1..Len(textures)
    /\ IF r.exit # "go"
       THEN /\ last' = Call(op, f, arg, r.exit, r.err, <<>>, "none")
            /\ UNCHANGED <<views, factories>>
       ELSE IF format = None
       THEN /\ last' = Call(op, f, arg, "Channel", channel, <<>>, "none")
            /\ UNCHANGED <<views, factories>>
       ELSE LET nat == Native("CreateDepthStencilView",
                          [resource |-> textures[htex].native, Format |-> format[1],
                           ViewDimension |-> r.dim, Flags |-> map_dsv_flags(desc.flags),
                           u |-> r.extra], hr_ok) IN
            /\ factories' = [factories EXCEPT ![f].frame_handles = @ \cup {<<"texture", htex>>}]
            /\ IF ~hr_ok
               THEN /\ last' = Call(op, f, arg, "Unsupported", <<>>, <<nat>>, "native failure")
                    /\ UNCHANGED views
               ELSE /\ views' = Append(views, [type |-> "dsv", native |-> Len(views) + 1,
                           tex |-> htex,
                           size |-> get_level_dimensions(info.kind, desc.level)])
                    /\ last' = Call(op, f, arg, "Ok", Len(views) + 1, <<nat>>, "none")
    /\ UNCHANGED <<usize_bits, overflow_checks, samplers, device_refs,
                   buffers, textures, shaders, programs, psos>>

\* the fields of the native view description's union, by view dimension
\* (D3D11_TEX1D_RTV, D3D11_TEX1D_ARRAY_RTV, D3D11_TEX2DMS_ARRAY_RTV, ...)
Addressing(dim, u) ==
    CASE dim \in {"TEXTURE1D", "TEXTURE2D"} ->
            [mip |-> Some(u[1]), first |-> None, count |-> None]
      [] dim \in {"TEXTURE1DARRAY", "TEXTURE2DARRAY", "TEXTURE3D"} ->
            [mip |-> Some(u[1]), first |-> Some(u[2]), count |-> Some(u[3])]
      [] dim = "TEXTURE2DMS" ->
            [mip |-> None, first |-> None, count |-> None]
      [] dim = "TEXTURE2DMSARRAY" ->
            [mip |-> None, first |-> Some(u[1]), count |-> Some(u[2])]

-----------------------------------------------------------------------------
(* Shader-resource views *)

LevelMaxValue == Pow2(LevelBits) - 1

\* the match on the texture kind of view_texture_as_shader_resource_raw:
\* (dim, layers, has_levels)
SrvKindArm(kind) ==
    CASE kind.k = "D1" -> [dim |-> "TEXTURE1D", layers |-> 1, has_levels |-> TRUE]
      [] kind.k = "D1Array" -> [dim |-> "TEXTURE1DARRAY", layers |-> kind.d, has_levels |-> TRUE]
      [] kind.k = "D2" /\ kind.aa = "Single" ->
            [dim |-> "TEXTURE2D", layers |-> 1, has_levels |-> TRUE]
      [] kind.k = "D2" /\ kind.aa # "Single" ->
            [dim |-> "TEXTURE2DMS", layers |-> 1, has_levels |-> FALSE]
      [] kind.k = "D2Array" /\ kind.aa = "Single" ->
            [dim |-> "TEXTURE2DARRAY", layers |-> kind.d, has_levels |-> TRUE]
      [] kind.k = "D2Array" /\ kind.aa # "Single" ->
            [dim |-> "TEXTURE2DMSARRAY", layers |-> kind.d, has_levels |-> FALSE]
      [] kind.k = "D3" -> [dim |-> "TEXTURE3D", layers |-> 1, has_levels |-> TRUE]
      [] kind.k = "Cube" -> [dim |-> "TEXTURECUBE", layers |-> 1, has_levels |-> TRUE]
      [] kind.k = "CubeArray" ->
            [dim |-> "TEXTURECUBEARRAY", layers |-> kind.d, has_levels |-> TRUE]

\* desc.max + 1 - desc.min in Level arithmetic, when it does not panic
LevelCount(min, max) ==
    (((max + 1) % Pow2(LevelBits)) + Pow2(LevelBits) - min) % Pow2(LevelBits)
\* ... and the builds with overflow checks panic on desc.max + 1
LevelCountOverflows(min, max) == max + 1 > LevelMaxValue

\* the four words of the native description's union
SrvWords(arm, desc) ==
    IF arm.has_levels
    THEN <<desc.min, LevelCount(desc.min, desc.max), 0, arm.layers>>
    ELSE <<0, arm.layers, 0, 0>>

\* Factory::view_texture_as_shader_resource_raw(htex, desc); the source reads
\* desc.channel, desc.min and desc.max and no other field of desc
view_texture_as_shader_resource_raw(f, htex, desc, hr_ok) ==
    LET info == textures[htex].info
        arm == SrvKindArm(info.kind)
        format == map_format(info.format, desc.channel, FALSE)
        arg == [htex |-> htex, desc |-> desc]
        op == "view_texture_as_shader_resource_raw" IN
    /\ f \in LiveFactories
    /\ htex \in 1..Len(textures)
    /\ IF format = None
       THEN /\ last' = Call(op, f, arg, "Channel", desc.channel, <<>>, "none")
            /\ UNCHANGED <<views, factories>>
       ELSE IF arm.has_levels /\ ~(desc.max >= desc.min)
       THEN /\ last' = Call(op, f, arg, "Panic", <<>>, <<>>, "assertion failed")
            /\ UNCHANGED <<views, factories>>
       ELSE IF arm.has_levels /\ overflow_checks /\ LevelCountOverflows(desc.min, desc.max)
       THEN /\ last' = Call(op, f, arg, "Panic", <<>>, <<>>, "add overflow")
            /\ UNCHANGED <<views, factories>>
       ELSE LET nat == Native("CreateShaderResourceView",
                          [resource |-> textures[htex].native, Format |-> format[1],
                           ViewDimension |-> arm.dim, u |-> SrvWords(arm, desc)], hr_ok) IN
            /\ factories' = [factories EXCEPT ![f].frame_handles = @ \cup {<<"texture", htex>>}]
            /\ IF ~hr_ok
               THEN /\ last' = Call(op, f, arg, "Unsupported", <<>>, <<nat>>, "native failure")
                    /\ UNCHANGED views
               ELSE /\ views' = Append(views, [type |-> "srv", native |-> Len(views) + 1,
                           tex |-> htex])
                    /\ last' = Call(op, f, arg, "Ok", Len(views) + 1, <<nat>>, "none")
    /\ UNCHANGED <<usize_bits, overflow_checks, samplers, device_refs,
                   buffers, textures, shaders, programs, psos>>

\* the fields of the native shader-resource view description's union, by view
\* dimension (D3D11_TEX2D_ARRAY_SRV, D3D11_TEX2DMS_ARRAY_SRV, D3D11_TEXCUBE_ARRAY_SRV, ...)
SrvAddressing(dim, u) ==
    CASE dim \in {"TEXTURE1D", "TEXTURE2D", "TEXTURE3D", "TEXTURECUBE"} ->
            [mip |-> Some(u[1]), levels |-> Some(u[2]), first |-> None, count |-> None]
      [] dim \in {"TEXTURE1DARRAY", "TEXTURE2DARRAY", "TEXTURECUBEARRAY"} ->
            [mip |-> Some(u[1]), levels |-> Some(u[2]), first |-> Some(u[3]), count |-> Some(u[4])]
      [] dim = "TEXTURE2DMS" ->
            [mip |-> None, levels |-> None, first |-> None, count |-> None]
      [] dim = "TEXTURE2DMSARRAY" ->
            [mip |-> None, levels |-> None, first |-> Some(u[1]), count |-> Some(u[2])]

-----------------------------------------------------------------------------
(* Shaders and the vertex-shader cache *)

Stages == {"Vertex", "Geometry", "Pixel"}

\* shader bytecode: a sequence of bytes
Bytes == {1, 2}
BytecodesUpTo(n) == UNION {[1..k -> Bytes] : k \in 1..n}

\* the SipHash of a byte slice: the length, then the bytes; deterministic and
\* order-sensitive, and free of collisions on the bytecodes of the model
RECURSIVE HashBytes(_, _)
HashBytes(h, code) ==
    IF code = <<>> THEN h
    ELSE HashBytes(5 * h + Head(code), Tail(code))
Hash(code) == HashBytes(17 + Len(code), code)

\* mirror::reflect_shader: the input signature read from the bytecode.  Byte i
\* declares vertex attribute i; byte 1 gives it a 4-byte semantic name, byte 2
\* a 130-byte one.
ShortName == 4
LongName == 130
reflect_shader(code) ==
    [vertex_attributes |->
        [i \in 1..Len(code) |->
            [name_len |-> IF code[i] = 1 THEN ShortName ELSE LongName,
             slot |-> i - 1]]]

\* BTreeMap::insert: replaces the value of a key that is present, and keeps
\* the entries in key order
RECURSIVE MapInsert_push(_, _, _)
MapInsert_push(m, k, v) ==
    IF m = <<>> \/ k < Head(m).key THEN <<[key |-> k, val |-> v]>> \o m
    ELSE <<Head(m)>> \o MapInsert_push(Tail(m), k, v)
MapInsert_reset(m, k, v) == <<[key |-> k, val |-> v]>>
RECURSIVE MapInsert(_, _, _)
MapInsert(m, k, v) ==
    IF m = <<>> THEN <<[key |-> k, val |-> v]>>
    ELSE IF k = Head(m).key THEN <<[key |-> k, val |-> v]>> \o Tail(m)
    ELSE IF k < Head(m).key THEN <<[key |-> k, val |-> v]>> \o m
    ELSE <<Head(m)>> \o MapInsert(Tail(m), k, v)

\* BTreeMap::get
MapGet(m, k) ==
    IF \E i \in 1..Len(m) : m[i].key = k
    THEN Some(m[CHOOSE i \in 1..Len(m) : m[i].key = k].val)
    ELSE None

\* the stage test that guards the cache insert
CachedStage_all(stage) == TRUE
CachedStage(stage) == stage = "Vertex"

\* Factory::create_shader(stage, code); hr_ok is the device's answer
create_shader_eager(f, stage, code, hr_ok) ==
    /\ f \in LiveFactories
    /\ factories' = [factories EXCEPT ![f].vs_cache =
            IF stage = "Vertex" THEN MapInsert(@, Hash(code), code) ELSE @]
    /\ shaders' = IF hr_ok
                  THEN Append(shaders, [stage |-> stage, object |-> Len(shaders) + 1, refs |-> 1,
                          reflection |-> reflect_shader(code), code_hash |-> Hash(code)])
                  ELSE shaders
    /\ last' = Call("create_shader", f, [stage |-> stage, code |-> code],
                    IF hr_ok THEN "Ok" ELSE "CompilationFailed",
                    IF hr_ok THEN Len(shaders) + 1 ELSE <<"code", "hr">>,
                    <<Native("CreateShader", [code |-> code, len |-> Len(code)], hr_ok)>>, "none")
    /\ UNCHANGED <<usize_bits, overflow_checks, samplers, device_refs, buffers, textures,
                   programs, psos, views>>
create_shader(f, stage, code, hr_ok) ==
    LET arg == [stage |-> stage, code |-> code]
        nat == Native(CASE stage = "Vertex" -> "CreateVertexShader"
                        [] stage = "Geometry" -> "CreateGeometryShader"
                        [] stage = "Pixel" -> "CreatePixelShader",
                      [code |-> code, len |-> Len(code)], hr_ok)
        hash == Hash(code) IN
    /\ f \in LiveFactories
    /\ IF hr_ok
       THEN /\ factories' = [factories EXCEPT ![f].vs_cache =
                    IF CachedStage(stage) THEN MapInsert(@, hash, code) ELSE @]
            /\ shaders' = Append(shaders,
                    [stage |-> stage, object |-> Len(shaders) + 1, refs |-> 1,
                     reflection |-> reflect_shader(code), code_hash |-> hash])
            /\ last' = Call("create_shader", f, arg, "Ok", Len(shaders) + 1,
                            <<nat>>, "none")
       ELSE /\ UNCHANGED <<factories, shaders>>
            /\ last' = Call("create_shader", f, arg, "CompilationFailed",
                            <<"code", "hr">>, <<nat>>, "none")
    /\ UNCHANGED <<usize_bits, overflow_checks, samplers, device_refs, buffers, textures,
                   programs, psos, views>>

-----------------------------------------------------------------------------
(* Programs *)

\* core::ShaderSet: Simple(vs, ps) or Geometry(vs, gs, ps), handles of shaders
\* of these stages (the typed wrappers VertexShader, GeometryShader,
\* PixelShader are only built by create_shader with that stage)
ShadersOf(stage) == {h \in 1..Len(shaders) : shaders[h].stage = stage}
ShaderSets ==
    [variant : {"Simple"}, vs : ShadersOf("Vertex"), ps : ShadersOf("Pixel")]
    \cup [variant : {"Geometry"}, vs : ShadersOf("Vertex"),
          gs : ShadersOf("Geometry"), ps : ShadersOf("Pixel")]

\* mirror::populate_info over the stages of the set: the vertex stage
\* contributes the vertex attributes
populate_info(set) == [vertex_attributes |-> shaders[set.vs].reflection.vertex_attributes]

\* the Program value built from the set
NullObject == 0
ProgramOf(set) ==
    [vs |-> shaders[set.vs].object,
     gs |-> IF set.variant = "Simple" THEN NullObject ELSE shaders[set.vs].object,
     ps |-> shaders[set.ps].object,
     vs_hash |-> shaders[set.vs].code_hash]

\* the handles a shader set references
SetHandles(set) ==
    {set.vs, set.ps} \cup (IF set.variant = "Geometry" THEN {set.gs} ELSE {})

\* Factory::create_program(shader_set)
create_program(f, set) ==
    /\ f \in LiveFactories
    /\ set \in ShaderSets
    /\ factories' = [factories EXCEPT ![f].frame_handles =
            @ \cup {<<"shader", h>> : h \in SetHandles(set)}]
    \* AddRef on the object of every shader of the set
    /\ shaders' = [h \in 1..Len(shaders) |->
            [shaders[h] EXCEPT !.refs = @
                + (IF h = set.vs THEN 1 ELSE 0)
                + (IF h = set.ps THEN 1 ELSE 0)
                + (IF set.variant = "Geometry" /\ h = set.gs THEN 1 ELSE 0)]]
    /\ programs' = Append(programs, [prog |-> ProgramOf(set), info |-> populate_info(set)])
    /\ last' = Call("create_program", f, set, "Ok", Len(programs) + 1, <<>>, "none")
    /\ UNCHANGED <<usize_bits, overflow_checks, samplers, device_refs, buffers, textures,
                   psos, views>>

-----------------------------------------------------------------------------
(* Pipeline states *)

\* let mut charbuf = [0; 256]
CharBufLen == 256

\* elem.offset & 1 != 0
Misaligned_4(offset) == offset % 4 # 0
Misaligned(offset) == offset % 2 # 0

\* how many (attrib, at_desc) pairs the zip of the program's vertex attributes
\* with the descriptor's attribute slots yields
ZipLen(attrs, slots) == IF Len(attrs) < Len(slots) THEN Len(attrs) ELSE Len(slots)

\* the loop over the zip from pair i on, with the layouts pushed so far and
\* the write position in charbuf
RECURSIVE LayoutLoop(_, _, _, _, _)
LayoutLoop(attrs, slots, i, layouts, charpos) ==
    IF i > ZipLen(attrs, slots) THEN [exit |-> "go", log |-> "none", layouts |-> layouts]
    ELSE IF slots[i] = None THEN LayoutLoop(attrs, slots, i + 1, layouts, charpos)
    ELSE LET elem == slots[i][1].elem
             irate == slots[i][1].irate
             format == map_format(elem.format[1], elem.format[2], FALSE) IN
         IF Misaligned(elem.offset)
            THEN [exit |-> "CreationError", log |-> "align", layouts |-> layouts]
         ELSE IF charpos >= CharBufLen    \* &charbuf[charpos]
            THEN [exit |-> "Panic", log |-> "index out of bounds", layouts |-> layouts]
         ELSE IF format = None
            THEN [exit |-> "CreationError", log |-> "format", layouts |-> layouts]
         ELSE LayoutLoop(attrs, slots, i + 1,
                Append(layouts,
                    [SemanticName |-> charpos,
                     SemanticIndex |-> 0,
                     Format |-> format[1],
                     InputSlot |-> attrs[i].slot,
                     AlignedByteOffset |-> AsUint(elem.offset),
                     InputSlotClass |-> IF irate = 0 THEN "PER_VERTEX_DATA"
                                        ELSE "PER_INSTANCE_DATA",
                     InstanceDataStepRate |-> irate]),
                charpos + attrs[i].name_len + 1)

\* the vs_cache lookup of create_pipeline_state_raw
CacheLookup(cache, hash) == MapGet(cache, hash)

\* Factory::create_pipeline_state_raw(program, desc); hr_ok is the device's
\* answer to CreateInputLayout
create_pipeline_state_raw(f, program, desc, hr_ok) ==
    LET arg == [program |-> program, desc |-> desc]
        op == "create_pipeline_state_raw"
        loop == LayoutLoop(programs[program].info.vertex_attributes,
                           desc.attributes, 1, <<>>, 0)
        prog == programs[program].prog
        vs_bin == CacheLookup(factories[f].vs_cache, prog.vs_hash)
        referenced == [factories EXCEPT ![f].frame_handles = @ \cup {<<"program", program>>}] IN
    /\ f \in LiveFactories
    /\ program \in 1..Len(programs)
    /\ IF loop.exit # "go"
       THEN /\ last' = Call(op, f, arg, loop.exit, <<>>, <<>>, loop.log)
            /\ UNCHANGED <<factories, psos>>
       ELSE IF vs_bin = None
       THEN /\ factories' = referenced
            /\ last' = Call(op, f, arg, "CreationError", <<>>, <<>>, "cache")
            /\ UNCHANGED psos
       ELSE LET layout == Native("CreateInputLayout",
                              [layouts |-> loop.layouts, vs_bin |-> vs_bin[1]], hr_ok) IN
            IF ~hr_ok
            THEN /\ factories' = referenced
                 /\ last' = Call(op, f, arg, "CreationError", <<>>, <<layout>>, "layout")
                 /\ UNCHANGED psos
            ELSE /\ factories' = referenced
                 /\ psos' = Append(psos,
                        [topology |-> <<"D3D11_PRIMITIVE_TOPOLOGY", desc.primitive>>,
                         layout |-> Len(psos) + 1,
                         attributes |-> desc.attributes,
                         program |-> prog,
                         handle |-> program])
                 /\ last' = Call(op, f, arg, "Ok", Len(psos) + 1,
                        <<layout,
                          Native("CreateRasterizerState", <<>>, TRUE),
                          Native("CreateDepthStencilState", <<>>, TRUE),
                          Native("CreateBlendState", <<>>, TRUE)>>, "none")
    /\ UNCHANGED <<usize_bits, overflow_checks, samplers, device_refs, buffers, textures,
                   shaders, programs, views>>

-----------------------------------------------------------------------------
(* Clone and Drop *)

\* Factory::new(device, share): a fresh cache and fresh frame handles
\* (share names the Share the factory holds: the handle store and the
\* capabilities; the first factory is built on Share 1)
NewFactory == [live |-> TRUE, share |-> 1, vs_cache |-> <<>>, frame_handles |-> {}]

\* the factory a clone of f is: Factory::new(self.device, self.share.clone())
CloneOf_fresh(f) == [NewFactory EXCEPT !.share = Len(factories) + 1]
CloneOf(f) == [NewFactory EXCEPT !.share = factories[f].share]

\* impl Clone for Factory
clone(f) ==
    /\ f \in LiveFactories
    /\ device_refs' = device_refs + 1
    /\ factories' = Append(factories, CloneOf(f))
    /\ last' = Call("clone", f, <<>>, "Ok", Len(factories) + 1, <<>>, "none")
    /\ UNCHANGED <<usize_bits, overflow_checks, samplers, buffers, textures, shaders,
                   programs, psos, views>>

\* impl Drop for Factory
drop(f) ==
    /\ f \in LiveFactories
    /\ device_refs' = device_refs - 1
    /\ factories' = [factories EXCEPT ![f].live = FALSE]
    /\ last' = Call("drop", f, <<>>, "Ok", <<>>, <<>>, "none")
    /\ UNCHANGED <<usize_bits, overflow_checks, samplers, buffers, textures, shaders,
                   programs, psos, views>>

-----------------------------------------------------------------------------
(* Samplers, updates and the view operations that are not implemented *)

\* data::map_filter, map_wrap, map_function: the native sampler description
map_sampler(info) == <<"D3D11_SAMPLER_DESC", info>>

\* Factory::create_sampler(info)
create_sampler(f, info, hr_ok) ==
    LET nat == Native("CreateSamplerState", map_sampler(info), hr_ok)
        op == "create_sampler" IN
    /\ f \in LiveFactories
    /\ IF hr_ok
       THEN /\ samplers' = Append(samplers, [native |-> Len(samplers) + 1, info |-> info])
            /\ last' = Call(op, f, [info |-> info], "Ok", Len(samplers) + 1, <<nat>>, "none")
       ELSE \* error!(...); unimplemented!()
            /\ last' = Call(op, f, [info |-> info], "Panic", <<>>, <<nat>>, "not yet implemented")
            /\ UNCHANGED samplers
    /\ UNCHANGED <<usize_bits, overflow_checks, factories, device_refs, buffers, textures,
                   shaders, programs, psos, views>>

\* offset_bytes + data.len() does not fit a usize
UpdateEndOverflows(offset_bytes, len) == offset_bytes + len > UsizeMax

\* Factory::update_buffer_raw(buffer, data, offset_bytes)
update_buffer_raw(f, buffer, len, offset_bytes) ==
    LET arg == [buffer |-> buffer, len |-> len, offset_bytes |-> offset_bytes]
        op == "update_buffer_raw" IN
    /\ f \in LiveFactories
    /\ buffer \in 1..Len(buffers)
    /\ factories' = [factories EXCEPT ![f].frame_handles = @ \cup {<<"buffer", buffer>>}]
    /\ IF overflow_checks /\ UpdateEndOverflows(offset_bytes, len)
       THEN last' = Call(op, f, arg, "Panic", <<>>, <<>>, "add overflow")
       ELSE last' = Call(op, f, arg, "Ok", <<>>, <<>>, "blocked by #897")
    /\ UNCHANGED <<usize_bits, overflow_checks, device_refs, store>>

\* Kind::get_level_dimensions: an extent at a mip level
LevelExtent(x, level) == IF x \div Pow2(level) < 1 THEN 1 ELSE x \div Pow2(level)

\* the cube face's array slice
ArraySlice(face) ==
    CASE face = None -> 0
      [] face = Some("PosX") -> 0
      [] face = Some("NegX") -> 1
      [] face = Some("PosY") -> 2
      [] face = Some("NegY") -> 3
      [] face = Some("PosZ") -> 4
      [] face = Some("NegZ") -> 5

\* the arithmetic of update_texture_raw that can leave its type: the pitches
\* (UINT), the box ends (tex::Size) and the subresource index (tex::Level)
UpdateTextureOverflows(tdesc, image, face) ==
    LET width == LevelExtent(tdesc.kind.w, image.mipmap)
        height == LevelExtent(tdesc.kind.h, image.mipmap)
        stride == get_total_bits(image.format[1])
        row_pitch == width * stride IN
    \/ row_pitch > Pow2(UintBits) - 1
    \/ height * row_pitch > Pow2(UintBits) - 1
    \/ image.xoffset + image.width > LayerMax
    \/ image.yoffset + image.height > LayerMax
    \/ image.zoffset + image.depth > LayerMax
    \/ ArraySlice(face) * tdesc.levels > LevelMaxValue
    \/ ArraySlice(face) * tdesc.levels + image.mipmap > LevelMaxValue

\* Factory::update_texture_raw(texture, image, data, face)
update_texture_raw(f, texture, image, face) ==
    LET arg == [texture |-> texture, image |-> image, face |-> face]
        op == "update_texture_raw" IN
    /\ f \in LiveFactories
    /\ texture \in 1..Len(textures)
    /\ factories' = [factories EXCEPT ![f].frame_handles = @ \cup {<<"texture", texture>>}]
    /\ IF overflow_checks /\ UpdateTextureOverflows(textures[texture].info, image, face)
       THEN last' = Call(op, f, arg, "Panic", <<>>, <<>>, "arithmetic overflow")
       ELSE last' = Call(op, f, arg, "Ok", <<>>, <<>>, "blocked by #897")
    /\ UNCHANGED <<usize_bits, overflow_checks, device_refs, store>>

\* Factory::view_buffer_as_shader_resource_raw(hbuf)
view_buffer_as_shader_resource_raw(f, hbuf) ==
    /\ f \in LiveFactories
    /\ hbuf \in 1..Len(buffers)
    /\ last' = Call("view_buffer_as_shader_resource_raw", f, [hbuf |-> hbuf],
                    "Unsupported", <<>>, <<>>, "none")
    /\ UNCHANGED <<usize_bits, overflow_checks, factories, device_refs, store>>

\* Factory::view_buffer_as_unordered_access_raw(hbuf)
view_buffer_as_unordered_access_raw(f, hbuf) ==
    /\ f \in LiveFactories
    /\ hbuf \in 1..Len(buffers)
    /\ last' = Call("view_buffer_as_unordered_access_raw", f, [hbuf |-> hbuf],
                    "Unsupported", <<>>, <<>>, "none")
    /\ UNCHANGED <<usize_bits, overflow_checks, factories, device_refs, store>>

\* Factory::view_texture_as_unordered_access_raw(htex)
view_texture_as_unordered_access_raw(f, htex) ==
    /\ f \in LiveFactories
    /\ htex \in 1..Len(textures)
    /\ last' = Call("view_texture_as_unordered_access_raw", f, [htex |-> htex],
                    "Unsupported", <<>>, <<>>, "none")
    /\ UNCHANGED <<usize_bits, overflow_checks, factories, device_refs, store>>

-----------------------------------------------------------------------------
(* The state after Factory::new on a device whose count is InitialRefs *)

InitialRefs == 1

InitStore ==
    /\ buffers = <<>>
    /\ textures = <<>>
    /\ shaders = <<>>
    /\ programs = <<>>
    /\ psos = <<>>
    /\ views = <<>>
    /\ samplers = <<>>

\* the calls a caller can make on buffers
BufferCalls ==
    [op : {"create_buffer_raw"}, info : BufferInfos]
    \cup [op : {"create_buffer_const_raw"}, len : BufferSizes, stride : Strides,
          role : BufferRoles, bind : Binds]

\* one factory on either target, about to make one buffer call
InitBuffer ==
    /\ usize_bits \in UsizeWidths
    /\ overflow_checks \in BOOLEAN
    /\ factories = <<NewFactory>>
    /\ device_refs = InitialRefs
    /\ InitStore
    /\ last = NoCall
    /\ script \in {<<c>> : c \in BufferCalls}

NextBuffer ==
    /\ script # <<>>
    /\ script' = Tail(script)
    /\ \/ /\ Head(script).op = "create_buffer_raw"
          /\ \E hr_ok \in BOOLEAN :
                create_buffer_raw(1, Head(script).info, hr_ok)
       \/ /\ Head(script).op = "create_buffer_const_raw"
          /\ \E hr_ok \in BOOLEAN :
                create_buffer_const_raw(1, Head(script).len, Head(script).stride,
                    Head(script).role, Head(script).bind, hr_ok)

SpecBuffer == InitBuffer /\ [][NextBuffer]_vars

-----------------------------------------------------------------------------
(* The factory and its clones: shaders, programs, pipeline states *)

Init ==
    /\ usize_bits = UintBits + WideExtraBits
    /\ overflow_checks = FALSE
    /\ factories = <<NewFactory>>
    /\ device_refs = InitialRefs
    /\ InitStore
    /\ last = NoCall
    /\ script = <<>>

\* an attribute slot of a pipeline descriptor
Slot(offset, format, irate) ==
    Some([elem |-> [offset |-> offset, format |-> format], irate |-> irate])
GoodFormat == <<"R8_G8_B8_A8", "Unorm">>
BadFormat == <<"R8_G8_B8_A8", "Float">>

\* the bytecodes and pipeline descriptors the free-running factory is given
MainCodes == {<<1>>, <<2, 2, 1>>}
MainPsoDescs ==
    [attributes : {<<None, None, None>>,
                   <<Slot(0, GoodFormat, 0), Slot(2, GoodFormat, 0), Slot(4, GoodFormat, 1)>>,
                   <<Slot(0, GoodFormat, 0), None, Slot(1, GoodFormat, 0)>>},
     primitive : {"TriangleList"}]

Next ==
    \/ /\ \E f \in LiveFactories, stage \in Stages, hr_ok \in BOOLEAN :
            \E code \in (IF stage = "Vertex" THEN MainCodes ELSE {<<1>>}) :
            /\ Len(shaders) < MaxShaders
            /\ create_shader(f, stage, code, hr_ok)
       /\ UNCHANGED script
    \/ /\ \E f \in LiveFactories, set \in ShaderSets :
            /\ Len(programs) < MaxPrograms
            /\ create_program(f, set)
       /\ UNCHANGED script
    \/ /\ \E f \in LiveFactories, p \in 1..Len(programs), desc \in MainPsoDescs,
            hr_ok \in BOOLEAN :
            /\ Len(psos) < MaxPsos
            /\ create_pipeline_state_raw(f, p, desc, hr_ok)
       /\ UNCHANGED script
    \/ /\ \E f \in LiveFactories :
            /\ Len(factories) < MaxFactories
            /\ clone(f)
       /\ UNCHANGED script
    \/ /\ \E f \in LiveFactories : drop(f)
       /\ UNCHANGED script

Spec == Init /\ [][Next]_vars

-----------------------------------------------------------------------------
(* Pipeline creation: a vertex and a pixel shader are created and linked on  *)
(* the first factory, the factory is cloned, and one pipeline state is       *)
(* requested on either factory                                               *)

SlotChoices ==
    {None, Slot(0, GoodFormat, 1)}
    \cup {Slot(o, fmt, 0) : o \in {0, 1, 2}, fmt \in {GoodFormat, BadFormat}}

PsoDescs == [attributes : [1..MaxAttrs -> SlotChoices], primitive : {"TriangleList"}]

PsoScripts ==
    {<<[op |-> "create_shader", f |-> 1, stage |-> "Vertex", code |-> code],
       [op |-> "create_shader", f |-> 1, stage |-> "Pixel", code |-> <<1>>],
       [op |-> "create_program", f |-> 1,
        set |-> [variant |-> "Simple", vs |-> 1, ps |-> 2]],
       [op |-> "clone", f |-> 1],
       [op |-> "create_pipeline_state_raw", f |-> f, program |-> 1, desc |-> desc]>> :
     code \in BytecodesUpTo(MaxAttrs), f \in {1, 2}, desc \in PsoDescs}

InitPso ==
    /\ usize_bits = UintBits + WideExtraBits
    /\ overflow_checks = FALSE
    /\ factories = <<NewFactory>>
    /\ device_refs = InitialRefs
    /\ InitStore
    /\ last = NoCall
    /\ script \in PsoScripts

NextPso ==
    /\ script # <<>>
    /\ script' = Tail(script)
    /\ LET c == Head(script) IN
       \/ /\ c.op = "create_shader"
          /\ \E hr_ok \in BOOLEAN : create_shader(c.f, c.stage, c.code, hr_ok)
       \/ /\ c.op = "create_program"
          /\ create_program(c.f, c.set)
       \/ /\ c.op = "clone"
          /\ clone(c.f)
       \/ /\ c.op = "create_pipeline_state_raw"
          /\ \E hr_ok \in BOOLEAN :
                create_pipeline_state_raw(c.f, c.program, c.desc, hr_ok)

SpecPso == InitPso /\ [][NextPso]_vars

-----------------------------------------------------------------------------
(* Views: one texture is created, then one view of it is requested *)

ViewTextureDescs ==
    [kind : KindsUpTo(MaxLayers), levels : {1, 2}, format : SurfaceTypes,
     bind : {{"RENDER_TARGET"}, {"DEPTH_STENCIL"}}, usage : {"Dynamic"}]

LayerSelectors == {None} \cup {Some(i) : i \in 0..MaxLayerId}

RenderDescs == [channel : {"Unorm", "Float"}, level : 0..MaxLevel, layer : LayerSelectors]
DepthStencilDescs == [level : 0..MaxLevel, layer : LayerSelectors,
                      flags : {{}, {"RO_DEPTH"}}]

ViewCalls ==
    [op : {"view_texture_as_render_target_raw"}, desc : RenderDescs]
    \cup [op : {"view_texture_as_depth_stencil_raw"}, desc : DepthStencilDescs]

InitView ==
    /\ usize_bits = UintBits + WideExtraBits
    /\ overflow_checks \in BOOLEAN
    /\ factories = <<NewFactory>>
    /\ device_refs = InitialRefs
    /\ InitStore
    /\ last = NoCall
    /\ script \in {<<[op |-> "create_texture_raw", desc |-> d], v>> :
                     d \in ViewTextureDescs, v \in ViewCalls}

NextView ==
    /\ script # <<>>
    /\ script' = Tail(script)
    /\ \/ /\ Head(script).op = "create_texture_raw"
          /\ \E hr_ok \in BOOLEAN :
                create_texture_raw(1, Head(script).desc, None, hr_ok)
       \/ /\ Head(script).op = "view_texture_as_render_target_raw"
          /\ \E hr_ok \in BOOLEAN :
                view_texture_as_render_target_raw(1, 1, Head(script).desc, hr_ok)
       \/ /\ Head(script).op = "view_texture_as_depth_stencil_raw"
          /\ \E hr_ok \in BOOLEAN :
                view_texture_as_depth_stencil_raw(1, 1, Head(script).desc, hr_ok)

SpecView == InitView /\ [][NextView]_vars

-----------------------------------------------------------------------------
(* Shader-resource views: one texture is created, then one view is requested *)

SrvTextureDescs ==
    [kind : KindsUpTo(MaxLayers + 1), levels : {2}, format : SurfaceTypes,
     bind : {{"SHADER_RESOURCE"}}, usage : {"Dynamic"}]

\* core::tex::ResourceDesc, with the layer selector the caller asks for
ResourceDescs ==
    [channel : {"Unorm", "Float"}, layer : {None, Some(0), Some(2)},
     min : {0, 1}, max : {0, 1, LevelMaxValue}]

InitSrv ==
    /\ usize_bits = UintBits + WideExtraBits
    /\ overflow_checks \in BOOLEAN
    /\ factories = <<NewFactory>>
    /\ device_refs = InitialRefs
    /\ InitStore
    /\ last = NoCall
    /\ script \in {<<[op |-> "create_texture_raw", desc |-> d],
                     [op |-> "view_texture_as_shader_resource_raw", desc |-> v]>> :
                     d \in SrvTextureDescs, v \in ResourceDescs}

NextSrv ==
    /\ script # <<>>
    /\ script' = Tail(script)
    /\ \/ /\ Head(script).op = "create_texture_raw"
          /\ \E hr_ok \in BOOLEAN :
                create_texture_raw(1, Head(script).desc, None, hr_ok)
       \/ /\ Head(script).op = "view_texture_as_shader_resource_raw"
          /\ \E hr_ok \in BOOLEAN :
                view_texture_as_shader_resource_raw(1, 1, Head(script).desc, hr_ok)

SpecSrv == InitSrv /\ [][NextSrv]_vars

-----------------------------------------------------------------------------
(* Texture creation: one factory makes one texture call *)

TextureDescs ==
    [kind : KindsUpTo(MaxLayers), levels : {1}, format : SurfaceTypes,
     bind : {{}, {"DEPTH_STENCIL"}}, usage : {"Dynamic"}]

TextureCalls ==
    [op : {"create_texture_raw"}, desc : TextureDescs, hint : {None, Some("Unorm")}]
    \cup [op : {"create_texture_with_data"}, desc : TextureDescs,
          channel : {"Unorm"}, mipmap : BOOLEAN]

InitTex ==
    /\ usize_bits = UintBits + WideExtraBits
    /\ overflow_checks \in BOOLEAN
    /\ factories = <<NewFactory>>
    /\ device_refs = InitialRefs
    /\ InitStore
    /\ last = NoCall
    /\ script \in {<<c>> : c \in TextureCalls}

NextTex ==
    /\ script # <<>>
    /\ script' = Tail(script)
    /\ \/ /\ Head(script).op = "create_texture_raw"
          /\ \E hr_ok \in BOOLEAN :
                create_texture_raw(1, Head(script).desc, Head(script).hint, hr_ok)
       \/ /\ Head(script).op = "create_texture_with_data"
          /\ \E hr_ok \in BOOLEAN :
                create_texture_with_data(1, Head(script).desc, Head(script).channel,
                                         Head(script).mipmap, hr_ok)

SpecTex == InitTex /\ [][NextTex]_vars

-----------------------------------------------------------------------------
(* Samplers, updates and unimplemented views: a buffer and a texture are     *)
(* created, then one such call is made                                       *)

MiscBufferInfo ==
    [role |-> "Vertex", usage |-> "Dynamic", bind |-> {}, size |-> 16, stride |-> 0]

MiscTextureDescs ==
    [kind : {[k |-> "D2", w |-> 1, h |-> hh, d |-> 0, aa |-> "Single"] : hh \in {1, TexSize}},
     levels : {1, 2}, format : {"R8_G8_B8_A8"}, bind : {{"SHADER_RESOURCE"}},
     usage : {"Dynamic"}]

\* core::tex::RawImageInfo
ImageInfos ==
    [xoffset : {0, LayerMax}, yoffset : {0}, zoffset : {0},
     width : {1}, height : {1}, depth : {1},
     format : {<<"R8_G8_B8_A8", "Unorm">>}, mipmap : {0, 1}]

CubeFaces == {None, Some("NegX"), Some("NegZ")}

\* core::tex::SamplerInfo
SamplerInfos == [filter : {"Scale", "Anisotropic"}, comparison : {None, Some("Less")}]

MiscCalls ==
    [op : {"create_sampler"}, info : SamplerInfos]
    \cup [op : {"update_buffer_raw"}, len : {0, 1}, offset_bytes : {0, Pow2(UintBits) - 1}]
    \cup [op : {"update_texture_raw"}, image : ImageInfos, face : CubeFaces]
    \cup [op : {"view_buffer_as_shader_resource_raw", "view_buffer_as_unordered_access_raw",
                "view_texture_as_unordered_access_raw"}]

InitMisc ==
    /\ usize_bits \in UsizeWidths
    /\ overflow_checks \in BOOLEAN
    /\ factories = <<NewFactory>>
    /\ device_refs = InitialRefs
    /\ InitStore
    /\ last = NoCall
    /\ script \in {<<[op |-> "create_buffer_raw", info |-> MiscBufferInfo],
                     [op |-> "create_texture_raw", desc |-> d], c>> :
                     d \in MiscTextureDescs, c \in MiscCalls}

NextMisc ==
    /\ script # <<>>
    /\ script' = Tail(script)
    /\ LET c == Head(script) IN
       \/ /\ c.op = "create_buffer_raw"
          /\ \E hr_ok \in BOOLEAN : create_buffer_raw(1, c.info, hr_ok)
       \/ /\ c.op = "create_texture_raw"
          /\ \E hr_ok \in BOOLEAN : create_texture_raw(1, c.desc, None, hr_ok)
       \/ /\ c.op = "create_sampler"
          /\ \E hr_ok \in BOOLEAN : create_sampler(1, c.info, hr_ok)
       \/ /\ c.op = "update_buffer_raw"
          /\ update_buffer_raw(1, 1, c.len, c.offset_bytes)
       \/ /\ c.op = "update_texture_raw"
          /\ update_texture_raw(1, 1, c.image, c.face)
       \/ /\ c.op = "view_buffer_as_shader_resource_raw"
          /\ view_buffer_as_shader_resource_raw(1, 1)
       \/ /\ c.op = "view_buffer_as_unordered_access_raw"
          /\ view_buffer_as_unordered_access_raw(1, 1)
       \/ /\ c.op = "view_texture_as_unordered_access_raw"
          /\ view_texture_as_unordered_access_raw(1, 1)

SpecMisc == InitMisc /\ [][NextMisc]_vars

-----------------------------------------------------------------------------
(* Every creation and view operation: the caller runs one of the programs of *)
(* the specifications above                                                  *)

OpsScripts ==
    {<<c>> : c \in {b \in BufferCalls :
        (IF b.op = "create_buffer_raw" THEN b.info.size ELSE b.len) <= AlignMask}}
    \cup {<<c>> : c \in TextureCalls}
    \cup {<<[op |-> "create_texture_raw", desc |-> d, hint |-> None], v>> :
            d \in {t \in ViewTextureDescs : t.levels = 1 /\ t.kind.d <= 1}, v \in ViewCalls}
    \cup {<<[op |-> "create_texture_raw", desc |-> d, hint |-> None],
            [op |-> "view_texture_as_shader_resource_raw", desc |-> v]>> :
            d \in {t \in SrvTextureDescs : t.kind.d <= 1}, v \in ResourceDescs}
    \cup {s \in PsoScripts : Len(s[1].code) <= 2}

InitOps ==
    /\ usize_bits = UintBits + WideExtraBits
    /\ overflow_checks \in BOOLEAN
    /\ factories = <<NewFactory>>
    /\ device_refs = InitialRefs
    /\ InitStore
    /\ last = NoCall
    /\ script \in OpsScripts

NextOps ==
    /\ script # <<>>
    /\ script' = Tail(script)
    /\ LET c == Head(script) IN
       \/ /\ c.op = "create_buffer_raw"
          /\ \E hr_ok \in BOOLEAN : create_buffer_raw(1, c.info, hr_ok)
       \/ /\ c.op = "create_buffer_const_raw"
          /\ \E hr_ok \in BOOLEAN :
                create_buffer_const_raw(1, c.len, c.stride, c.role, c.bind, hr_ok)
       \/ /\ c.op = "create_texture_raw"
          /\ \E hr_ok \in BOOLEAN : create_texture_raw(1, c.desc, c.hint, hr_ok)
       \/ /\ c.op = "create_texture_with_data"
          /\ \E hr_ok \in BOOLEAN :
                create_texture_with_data(1, c.desc, c.channel, c.mipmap, hr_ok)
       \/ /\ c.op = "view_texture_as_render_target_raw"
          /\ \E hr_ok \in BOOLEAN : view_texture_as_render_target_raw(1, 1, c.desc, hr_ok)
       \/ /\ c.op = "view_texture_as_depth_stencil_raw"
          /\ \E hr_ok \in BOOLEAN : view_texture_as_depth_stencil_raw(1, 1, c.desc, hr_ok)
       \/ /\ c.op = "view_texture_as_shader_resource_raw"
          /\ \E hr_ok \in BOOLEAN : view_texture_as_shader_resource_raw(1, 1, c.desc, hr_ok)
       \/ /\ c.op = "create_shader"
          /\ \E hr_ok \in BOOLEAN : create_shader(c.f, c.stage, c.code, hr_ok)
       \/ /\ c.op = "create_program"
          /\ create_program(c.f, c.set)
       \/ /\ c.op = "clone"
          /\ clone(c.f)
       \/ /\ c.op = "create_pipeline_state_raw"
          /\ \E hr_ok \in BOOLEAN :
                create_pipeline_state_raw(c.f, c.program, c.desc, hr_ok)

SpecOps == InitOps /\ [][NextOps]_vars

-----------------------------------------------------------------------------
(* Claims about buffer creation, checked under SpecBuffer *)

BufferOps == {"create_buffer_raw", "create_buffer_const_raw"}
IsBufferCall == last.op \in BufferOps
LastInfo == last.arg.info
WantsTarget == LastInfo.bind \cap {"RENDER_TARGET", "DEPTH_STENCIL"} # {}
BadIndexStride == LastInfo.role = "Index" /\ LastInfo.stride \notin {2, 4}
\* a Uniform size whose round-up does not fit a usize
UniformOverflow == LastInfo.role = "Uniform" /\ LastInfo.size > UsizeMax - 15

\* C1, as stated: a buffer call whose bind set holds the render-target or the
\* depth-stencil flag always returns UnsupportedBind, whatever the role, the
\* usage, the size and the stride.
C1_Original ==
    (IsBufferCall /\ WantsTarget) => last.result = "UnsupportedBind"

\* C1, amended: a buffer call whose bind set holds the render-target or the
\* depth-stencil flag returns UnsupportedBind (carrying the bind set, with no
\* native call and nothing registered), except that an Index role with a stride
\* other than 2 or 4 returns Other, and a Uniform role whose size exceeds
\* usize::MAX - 15 panics at the size assertion: both tests run first.
C1_Amended ==
    (IsBufferCall /\ WantsTarget) =>
        /\ last.native = <<>>
        /\ buffers = <<>>
        /\ IF BadIndexStride THEN last.result = "Other"
           ELSE IF UniformOverflow THEN last.result = "Panic"
           ELSE last.result = "UnsupportedBind" /\ last.err = LastInfo.bind

C1_Witness ==
    /\ IsBufferCall
    /\ "DEPTH_STENCIL" \in LastInfo.bind
    /\ LastInfo.role = "Index" /\ LastInfo.stride = 4
    /\ last.result = "UnsupportedBind"

\* C2: a buffer call with role Index and a stride other than 2 or 4 returns
\* Other whatever the bind set, the usage, the size and the initial data, and
\* makes no native call and registers nothing.
C2_IndexStride ==
    (IsBufferCall /\ BadIndexStride) =>
        /\ last.result = "Other"
        /\ last.native = <<>>
        /\ buffers = <<>>

C2_Witness ==
    /\ last.op = "create_buffer_const_raw"
    /\ LastInfo.role = "Index" /\ LastInfo.stride = 3
    /\ "RENDER_TARGET" \in LastInfo.bind
    /\ last.result = "Other"

\* the smallest multiple of 16 that is >= n
SmallestMultipleOf16(n) == CHOOSE m \in n..(n + 15) : m % 16 = 0

\* C3, as stated: whenever the native buffer creation is called, its byte width
\* is the smallest multiple of 16 >= the requested size for role Uniform and
\* the requested size itself for roles Vertex and Index, and it is never
\* smaller than the requested size.
C3_ByteWidth ==
    (IsBufferCall /\ last.native # <<>>) =>
        LET width == last.native[1].desc.desc.ByteWidth IN
        /\ width >= LastInfo.size
        /\ width = IF LastInfo.role = "Uniform"
                   THEN SmallestMultipleOf16(LastInfo.size)
                   ELSE LastInfo.size

-----------------------------------------------------------------------------
(* Claims about render-target and depth-stencil views, checked under SpecView *)

IsRtvCall == last.op = "view_texture_as_render_target_raw"
IsDsvCall == last.op = "view_texture_as_depth_stencil_raw"
IsTargetViewCall == IsRtvCall \/ IsDsvCall
ViewKind == textures[last.arg.htex].info.kind
ViewLayer == last.arg.desc.layer
ViewLevel == last.arg.desc.level
\* the call got as far as the native view creation
ViewResolved == last.native # <<>>
ResolvedDim == last.native[1].desc.ViewDimension
ResolvedAddr == Addressing(ResolvedDim, last.native[1].desc.u)
Addr(mip, first, count) == [mip |-> mip, first |-> first, count |-> count]

\* C8: a depth-stencil view request on a D3 texture returns Unsupported for
\* every layer selector, level and flag set, makes no native call and
\* registers no view.
C8_DsvOnD3 ==
    (IsDsvCall /\ ViewKind.k = "D3") =>
        /\ last.result = "Unsupported"
        /\ last.native = <<>>
        /\ views = <<>>

C8_Witness ==
    /\ IsDsvCall /\ ViewKind.k = "D3" /\ ViewKind.d = 2
    /\ ViewLayer = Some(5) /\ ViewLevel = 2
    /\ last.arg.desc.flags # {}
    /\ last.result = "Unsupported"

\* the rows of the view table with no layer selector
NoneRow(kind, level) ==
    CASE kind.k = "D1" ->
            [dim |-> "TEXTURE1D", addr |-> Addr(Some(level), None, None)]
      [] kind.k = "D1Array" ->
            [dim |-> "TEXTURE1DARRAY", addr |-> Addr(Some(level), Some(0), Some(kind.d))]
      [] kind.k = "D2" /\ kind.aa = "Single" ->
            [dim |-> "TEXTURE2D", addr |-> Addr(Some(level), None, None)]
      [] kind.k = "D2" /\ kind.aa # "Single" ->
            [dim |-> "TEXTURE2DMS", addr |-> Addr(None, None, None)]
      [] kind.k = "D2Array" /\ kind.aa = "Single" ->
            [dim |-> "TEXTURE2DARRAY", addr |-> Addr(Some(level), Some(0), Some(kind.d))]
      [] kind.k = "D2Array" /\ kind.aa # "Single" ->
            [dim |-> "TEXTURE2DMSARRAY", addr |-> Addr(None, Some(0), Some(kind.d))]
      [] kind.k = "Cube" ->
            [dim |-> "TEXTURE2DARRAY", addr |-> Addr(Some(level), Some(0), Some(6))]
      [] kind.k = "CubeArray" ->
            [dim |-> "TEXTURE2DARRAY", addr |-> Addr(Some(level), Some(0), Some(6 * kind.d))]
      [] kind.k = "D3" ->
            [dim |-> "TEXTURE3D", addr |-> Addr(Some(level), Some(0), Some(kind.d))]

\* the request is one the table has a row for
InTable ==
    /\ IsTargetViewCall
    /\ ViewKind.aa # "Single" => ViewLevel = 0
    /\ ViewKind.k = "D3" => IsRtvCall

\* C9: a render-target or depth-stencil view request with no layer selector
\* resolves, for every texture kind, to the dimension and the addressing of the
\* table (D3 for render-target views only, multisampled kinds at level 0): it
\* is never refused as BadLevel or BadLayer (it fails only on an unmappable
\* format or when the native call itself fails), and the native view
\* description carries exactly that dimension, mip level, first slice and
\* slice count.
C9_NoneTable ==
    (InTable /\ ViewLayer = None) =>
        /\ last.result \in {"Ok", "Unsupported", "Channel"}
        /\ last.result = "Unsupported" => (ViewResolved /\ ~last.native[1].ok)
        /\ last.result = "Channel" =>
              map_format(textures[last.arg.htex].info.format,
                         IF IsRtvCall THEN last.arg.desc.channel ELSE "Uint", TRUE) = None
        /\ ViewResolved =>
              /\ ResolvedDim = NoneRow(ViewKind, ViewLevel).dim
              /\ ResolvedAddr = NoneRow(ViewKind, ViewLevel).addr

C9_Witness ==
    /\ IsRtvCall /\ ViewLayer = None /\ ViewLevel = 0
    /\ ViewKind.k = "Cube"
    /\ last.result = "Ok"
    /\ ResolvedDim = "TEXTURE2DARRAY"
    /\ ResolvedAddr = Addr(Some(0), Some(0), Some(6))

\* the rows of the view table with layer selector Some(i), i in range: exactly
\* one slice (one cube of 6 faces on a cube array)
SomeRow(kind, level, i) ==
    CASE kind.k \in {"D1Array"} ->
            [dim |-> "TEXTURE1DARRAY", addr |-> Addr(Some(level), Some(i), Some(1))]
      [] kind.k = "D2Array" /\ kind.aa = "Single" ->
            [dim |-> "TEXTURE2DARRAY", addr |-> Addr(Some(level), Some(i), Some(1))]
      [] kind.k = "D2Array" /\ kind.aa # "Single" ->
            [dim |-> "TEXTURE2DMSARRAY", addr |-> Addr(None, Some(i), Some(1))]
      [] kind.k = "Cube" ->
            [dim |-> "TEXTURE2DARRAY", addr |-> Addr(Some(level), Some(i), Some(1))]
      [] kind.k = "CubeArray" ->
            [dim |-> "TEXTURE2DARRAY", addr |-> Addr(Some(level), Some(6 * i), Some(6))]

LayerCount(kind) == IF kind.k = "Cube" THEN 6 ELSE kind.d

\* C10, as stated: a render-target or depth-stencil view request with layer
\* selector Some(i), i in range, on D1Array, D2Array, Cube or CubeArray
\* addresses exactly one slice: (level, i, 1), (first i, count 1) on a
\* multisampled D2Array at level 0, and (level, 6i, 6) on a CubeArray, for
\* every i.
C10_SingleSlice ==
    (/\ InTable
     /\ ViewKind.k \in {"D1Array", "D2Array", "Cube", "CubeArray"}
     /\ ViewLayer # None
     /\ ViewLayer[1] < LayerCount(ViewKind)
     /\ ViewResolved) =>
        /\ ResolvedDim = SomeRow(ViewKind, ViewLevel, ViewLayer[1]).dim
        /\ ResolvedAddr = SomeRow(ViewKind, ViewLevel, ViewLayer[1]).addr

\* the kinds that have layers or faces to select
Layered(kind) == kind.k \in {"D1Array", "D2Array", "Cube", "CubeArray"}
ViewLevels == textures[last.arg.htex].info.levels
LayerInRange == ViewLayer # None /\ ViewLayer[1] < LayerCount(ViewKind)
LevelOutOfRange == ViewLevel >= ViewLevels \/ (ViewKind.aa # "Single" /\ ViewLevel # 0)

\* C12: on a layered texture, a render-target or depth-stencil view request
\* with layer selector Some(i), i at or beyond the layer count, fails with
\* BadLayer(i); a request whose level is out of range (at or beyond the
\* texture's level count, or not 0 on a multisampled texture) fails with
\* BadLevel(level), also with a valid layer selector; and a request whose layer
\* index is in range is never refused as BadLayer.
C12_RangeErrors ==
    (IsTargetViewCall /\ Layered(ViewKind)) =>
        /\ (ViewLayer # None /\ ~LayerInRange) =>
              (last.result = "BadLayer" /\ last.err = ViewLayer[1])
        /\ ((ViewLayer = None \/ LayerInRange) /\ LevelOutOfRange) =>
              (last.result = "BadLevel" /\ last.err = ViewLevel)
        /\ LayerInRange => last.result # "BadLayer"

-----------------------------------------------------------------------------
(* Claims about shaders, programs and pipeline states *)

IsPsoCall == last.op = "create_pipeline_state_raw"
PsoProgram == programs[last.arg.program]
PsoSlots == last.arg.desc.attributes
CacheKeys(f) == {factories[f].vs_cache[i].key : i \in 1..Len(factories[f].vs_cache)}
PsoCacheHit == PsoProgram.prog.vs_hash \in CacheKeys(last.f)

\* C4: a pipeline-state call succeeds only if the calling factory's shader
\* cache holds the program's vertex-shader hash; when the hash is absent the
\* call returns CreationError, makes no native call and registers no pipeline
\* state.
C4_CacheRequired ==
    IsPsoCall =>
        /\ last.result = "Ok" => PsoCacheHit
        /\ ~PsoCacheHit =>
              /\ last.result = "CreationError"
              /\ last.native = <<>>
              /\ psos = <<>>

\* C5: every live factory holds, in its shader cache, the vertex-shader hash of
\* every registered program, and so no pipeline-state call ends in the
\* cache-miss error.
C5_ProgramCached ==
    /\ \A p \in 1..Len(programs) : \A f \in LiveFactories :
          programs[p].prog.vs_hash \in CacheKeys(f)
    /\ ~(IsPsoCall /\ last.log = "cache")

\* the entries a cache holds under a key
EntriesUnder(cache, k) == Cardinality({i \in 1..Len(cache) : cache[i].key = k})

\* this step is the second of two successive successful
\* create_shader(Vertex, b) calls on one factory
SecondVertexCall ==
    /\ last.op = "create_shader" /\ last.result = "Ok" /\ last.arg.stage = "Vertex"
    /\ last'.op = "create_shader" /\ last'.result = "Ok"
    /\ last'.arg = last.arg /\ last'.f = last.f
    /\ shaders' # shaders

\* C6, as stated: two successive successful create_shader(Vertex, b) calls on
\* one factory produce the same hash, two distinct handles and two entries
\* under that hash in the factory's cache.
C6_Original ==
    [][SecondVertexCall =>
        /\ shaders'[last'.err].code_hash = shaders'[last.err].code_hash
        /\ last'.err # last.err
        /\ EntriesUnder(factories'[last.f].vs_cache, shaders'[last.err].code_hash) = 2]_vars

\* C6, amended: two successive successful create_shader(Vertex, b) calls on
\* one factory produce the same hash and two distinct handles, and the cache
\* holds exactly one entry under that hash, mapping it to b: the second call
\* leaves the cache as the first one left it.
C6_Amended ==
    [][SecondVertexCall =>
        /\ shaders'[last'.err].code_hash = shaders'[last.err].code_hash
        /\ last'.err # last.err
        /\ EntriesUnder(factories'[last.f].vs_cache, shaders'[last.err].code_hash) = 1
        /\ MapGet(factories'[last.f].vs_cache, shaders'[last.err].code_hash)
              = Some(last.arg.code)
        /\ factories'[last.f].vs_cache = factories[last.f].vs_cache]_vars

C6_Witness ==
    /\ Len(factories) = 1
    /\ Len(shaders) = 2
    /\ shaders[1].stage = "Vertex" /\ shaders[2].stage = "Vertex"
    /\ shaders[1].code_hash = shaders[2].code_hash
    /\ last.op = "create_shader" /\ last.result = "Ok" /\ last.err = 2
    /\ Len(factories[1].vs_cache) = 1

\* the slots the loop examines: those the program has a vertex attribute for
Examined == 1..(IF Len(PsoProgram.info.vertex_attributes) < Len(PsoSlots)
                THEN Len(PsoProgram.info.vertex_attributes) ELSE Len(PsoSlots))
OddAt(i) == PsoSlots[i] # None /\ PsoSlots[i][1].elem.offset % 2 = 1
FirstOdd == CHOOSE i \in Examined : OddAt(i) /\ \A j \in Examined : OddAt(j) => i <= j
\* the bytes the names of the bound attributes before slot i take in charbuf
RECURSIVE NameBytesBefore(_)
NameBytesBefore(i) ==
    IF i <= 1 THEN 0
    ELSE NameBytesBefore(i - 1)
         + (IF PsoSlots[i - 1] # None
            THEN PsoProgram.info.vertex_attributes[i - 1].name_len + 1 ELSE 0)

\* C7, as stated: a pipeline-state call returns CreationError whenever any
\* attribute binding of the descriptor has an odd offset, whatever the program
\* and the position of the binding; with even offsets only it never fails for
\* the alignment reason.
C7_Original ==
    IsPsoCall =>
        /\ (\E i \in 1..Len(PsoSlots) : OddAt(i)) => last.result = "CreationError"
        /\ (\A i \in 1..Len(PsoSlots) : ~OddAt(i)) => last.log # "align"

\* C7, amended: a pipeline-state call never succeeds, makes no native call and
\* registers nothing when a binding in a slot the program has a vertex
\* attribute for has an odd offset: it returns CreationError, unless the names
\* of the attributes bound before that slot fill the 256-byte name buffer, in
\* which case it may panic first.  Bindings in slots beyond the program's
\* vertex attributes are not examined, and a call whose examined offsets are
\* all even never fails for the alignment reason.
C7_Amended ==
    IsPsoCall =>
        /\ (\E i \in Examined : OddAt(i)) =>
              /\ last.result \in {"CreationError", "Panic"}
              /\ last.native = <<>>
              /\ psos = <<>>
              /\ NameBytesBefore(FirstOdd) < 256 => last.result = "CreationError"
        /\ (\A i \in Examined : ~OddAt(i)) => last.log # "align"

C7_Witness ==
    /\ IsPsoCall
    /\ Len(PsoProgram.info.vertex_attributes) = 2
    /\ PsoSlots[1] # None /\ ~OddAt(1) /\ OddAt(2)
    /\ last.result = "CreationError" /\ last.log = "align"

-----------------------------------------------------------------------------
(* Claims about shader-resource views, checked under SpecSrv *)

IsSrvCall == last.op = "view_texture_as_shader_resource_raw"
SrvResolvedAddr == SrvAddressing(ResolvedDim, last.native[1].desc.u)

\* C11: shader-resource views follow the kind x layer-selector table of the
\* target views: on a single-sample D2Array with 4 layers, selector Some(2)
\* resolves to a 2D-array view of slices [2,3), and on a Cube with no selector
\* the view is a 2D-array view of 6 slices.
C11_SrvTable ==
    (IsSrvCall /\ ViewResolved) =>
        /\ (ViewKind = KindD2Array(4, "Single") /\ ViewLayer = Some(2)) =>
              /\ ResolvedDim = "TEXTURE2DARRAY"
              /\ SrvResolvedAddr.first = Some(2)
              /\ SrvResolvedAddr.count = Some(1)
        /\ (ViewKind.k = "Cube" /\ ViewLayer = None) =>
              /\ ResolvedDim = "TEXTURE2DARRAY"
              /\ SrvResolvedAddr.first = Some(0)
              /\ SrvResolvedAddr.count = Some(6)

-----------------------------------------------------------------------------
(* Claims about texture creation, checked under SpecTex *)

IsTextureCall == last.op \in {"create_texture_raw", "create_texture_with_data"}
TexKind == last.arg.desc.kind
TexNative == last.native[1]
\* the native parameters the kind table gives
KindRow(kind) ==
    CASE kind.k = "D1" -> [path |-> "CreateTexture1D", array |-> Some(1)]
      [] kind.k = "D1Array" -> [path |-> "CreateTexture1D", array |-> Some(kind.d)]
      [] kind.k = "D2" -> [path |-> "CreateTexture2D", array |-> Some(1)]
      [] kind.k = "D2Array" -> [path |-> "CreateTexture2D", array |-> Some(kind.d)]
      [] kind.k = "D3" -> [path |-> "CreateTexture3D", array |-> None]
      [] kind.k = "Cube" -> [path |-> "CreateTexture2D", array |-> Some(6)]
      [] kind.k = "CubeArray" -> [path |-> "CreateTexture2D", array |-> Some(6 * kind.d)]
IsCubeKind(kind) == kind.k \in {"Cube", "CubeArray"}

\* C17: create_texture reaches the native creation of its kind's row: the 1D,
\* 2D or 3D path, the row's array size (6 for Cube, 6 x layers, a multiple of
\* 6, for CubeArray, none for D3), the descriptor's anti-alias mode on D2 and
\* D2Array and single-sample on the cube kinds, the cube-map flag on the cube
\* kinds and on no other, and the mip-generation flag exactly when initial
\* data is given with generate-mipmaps requested; no kind makes the call panic.
C17_KindDispatch ==
    IsTextureCall =>
        /\ last.result # "Panic"
        /\ last.native # <<>> =>
              /\ TexNative.call = KindRow(TexKind).path
              /\ TexNative.desc.ArraySize = KindRow(TexKind).array
              /\ TexKind.k \in {"D2", "D2Array"} => TexNative.desc.SampleDesc = TexKind.aa
              /\ IsCubeKind(TexKind) => TexNative.desc.SampleDesc = "Single"
              /\ IsCubeKind(TexKind) => TexNative.desc.ArraySize[1] % 6 = 0
              /\ ("TEXTURECUBE" \in TexNative.desc.MiscFlags) = IsCubeKind(TexKind)
              /\ ("GENERATE_MIPS" \in TexNative.desc.MiscFlags)
                    = (last.arg.init_opt = Some(TRUE))

-----------------------------------------------------------------------------
(* Claims about panics, updates and unimplemented views, checked under SpecMisc *)

NativeFailed == last.native # <<>> /\ ~last.native[Len(last.native)].ok
TypedErrors == {"Other", "UnsupportedBind", "Kind", "Format", "CompilationFailed",
                "CreationError", "Channel", "BadLayer", "BadLevel", "Unsupported"}

\* C13: no factory operation panics, whatever its input and whatever the
\* native device answers: a call whose native device call fails returns a
\* typed error value to its caller.
C13_NoPanic ==
    /\ last.result # "Panic"
    /\ NativeFailed => last.result \in TypedErrors

UpdateOps == {"update_buffer_raw", "update_texture_raw"}
StubViewOps == {"view_buffer_as_shader_resource_raw", "view_buffer_as_unordered_access_raw",
                "view_texture_as_unordered_access_raw"}

\* C18: update_buffer_raw and update_texture_raw make no native call, return
\* Ok for every input and change neither the handle store nor a shader cache;
\* the three unimplemented view operations return Unsupported and register
\* nothing.
C18_UpdatesAndStubs ==
    [][/\ last'.op \in UpdateOps /\ last' # last =>
            /\ last'.result = "Ok"
            /\ last'.native = <<>>
            /\ store' = store
            /\ \A f \in 1..Len(factories) : factories'[f].vs_cache = factories[f].vs_cache
       /\ last'.op \in StubViewOps /\ last' # last =>
            /\ last'.result = "Unsupported"
            /\ last'.native = <<>>
            /\ store' = store]_vars

-----------------------------------------------------------------------------
(* Claims about programs, the shader cache and the device count, checked     *)
(* under Spec                                                                *)

IsProgramCall == last.op = "create_program"
LinkedSet == last.arg
LinkedProgram == programs[last.err].prog

\* C14: a program created from a {Vertex, Geometry, Pixel} set holds the native
\* objects of the set's vertex, geometry and pixel shaders as its three
\* stages; one created from a {Vertex, Pixel} set has no geometry stage; in
\* both cases its vs_hash is the content hash of the vertex shader.
C14_ProgramStages ==
    IsProgramCall =>
        /\ LinkedProgram.vs = shaders[LinkedSet.vs].object
        /\ LinkedProgram.ps = shaders[LinkedSet.ps].object
        /\ LinkedProgram.vs_hash = shaders[LinkedSet.vs].code_hash
        /\ LinkedSet.variant = "Geometry" => LinkedProgram.gs = shaders[LinkedSet.gs].object
        /\ LinkedSet.variant = "Simple" => LinkedProgram.gs = NullObject

KeysOf(cache) == {cache[i].key : i \in 1..Len(cache)}
ValueAt(cache, k) == cache[CHOOSE i \in 1..Len(cache) : cache[i].key = k].val
VertexShaderMade ==
    last'.op = "create_shader" /\ last'.result = "Ok" /\ last'.arg.stage = "Vertex"

\* C15: a successful create_shader(Vertex, b) on a factory adds the key
\* hash(b), mapped to b, to that factory's cache and leaves every other entry
\* as it was; every other create_shader call (another stage, a failed
\* compilation, or a call on another factory) leaves the cache as it was.  So
\* the keys of a cache are exactly the hashes of the bytecodes whose
\* vertex-stage creation succeeded on that factory.
C15_CacheKeys ==
    [][last'.op = "create_shader" =>
        \A f \in 1..Len(factories) :
            LET before == factories[f].vs_cache
                after == factories'[f].vs_cache
                b == last'.arg.code IN
            IF VertexShaderMade /\ last'.f = f
            THEN /\ KeysOf(after) = KeysOf(before) \cup {Hash(b)}
                 /\ ValueAt(after, Hash(b)) = b
                 /\ Len(after) = Cardinality(KeysOf(after))
                 /\ \A k \in KeysOf(before) \ {Hash(b)} :
                        ValueAt(after, k) = ValueAt(before, k)
            ELSE after = before]_vars

C15_Witness ==
    /\ Len(factories[1].vs_cache) = 2
    /\ Len(shaders) = 3
    /\ last.op = "create_shader" /\ last.result = "Ok" /\ last.f = 1
    /\ last.arg.stage = "Pixel"

\* C16: an entry of a factory's shader cache is never removed or altered:
\* whatever operation runs, every entry a factory's cache holds before it is
\* held after it, and so a program whose vs_hash a factory's cache holds keeps
\* being found by that factory's pipeline-state calls.
C16_CacheKept ==
    [][\A f \in 1..Len(factories) :
        LET before == factories[f].vs_cache
            after == factories'[f].vs_cache IN
        /\ \A k \in KeysOf(before) :
              k \in KeysOf(after) /\ ValueAt(after, k) = ValueAt(before, k)
        /\ \A p \in 1..Len(programs) :
              programs[p].prog.vs_hash \in KeysOf(before)
                  => programs'[p].prog.vs_hash \in KeysOf(after)
        /\ (last'.op = "create_pipeline_state_raw" /\ last'.f = f
              /\ programs[last'.arg.program].prog.vs_hash \in KeysOf(before))
                  => last'.log # "cache"]_vars

C16_Witness ==
    /\ Len(factories) = 2
    /\ Len(factories[1].vs_cache) = 2
    /\ last.op = "create_pipeline_state_raw" /\ last.f = 1
    /\ last.result = "Ok"

-----------------------------------------------------------------------------
(* Claims about failed calls, checked under SpecOps *)

CreationOps == {"create_buffer_raw", "create_buffer_const_raw", "create_texture_raw",
                "create_texture_with_data", "create_shader", "create_pipeline_state_raw",
                "view_texture_as_render_target_raw", "view_texture_as_depth_stencil_raw",
                "view_texture_as_shader_resource_raw"}
\* a failure of the call's own validation or of a format mapping
ValidationFailure(l) ==
    \/ l.result \in {"UnsupportedBind", "Format", "Channel", "BadLayer", "BadLevel"}
    \/ l.result = "Other" /\ l.log = "index stride"
    \/ l.result = "CreationError" /\ l.log \in {"align", "format", "cache"}

\* C19: a creation or view call that returns an error changes neither the
\* handle store nor any shader cache; a call that registers a handle has made
\* its native calls and all of them succeeded; and a call that fails its
\* validation or a format mapping has made no native call.
C19_FailedCalls ==
    [][last'.op \in CreationOps =>
        /\ last'.result \in TypedErrors =>
              /\ store' = store
              /\ \A f \in 1..Len(factories) :
                    factories'[f].vs_cache = factories[f].vs_cache
        /\ store' # store =>
              /\ last'.result = "Ok"
              /\ last'.native # <<>>
              /\ \A i \in 1..Len(last'.native) : last'.native[i].ok
        /\ ValidationFailure(last') => last'.native = <<>>]_vars

C19_Witness ==
    /\ last.op = "create_shader" /\ last.arg.stage = "Vertex"
    /\ last.result = "CompilationFailed"
    /\ shaders = <<>>
    /\ factories[1].vs_cache = <<>>

-----------------------------------------------------------------------------
(* Claims about clone and drop, checked under Spec *)

Alive == {f \in 1..Len(factories) : factories[f].live}

\* C20: with the first factory built on a device whose count is InitialRefs,
\* each clone adds one to the device's reference count and each drop takes
\* one away: the count is InitialRefs - 1 + (number of live factories), so at
\* least InitialRefs while a factory is alive, and every factory, clones
\* included, holds the Share (handle store and capabilities) of the first.
C20_DeviceCount ==
    /\ device_refs = InitialRefs - 1 + Cardinality(Alive)
    /\ Alive # {} => device_refs >= InitialRefs
    /\ \A f \in 1..Len(factories) : factories[f].share = factories[1].share

C20_Witness ==
    /\ Len(factories) = 2
    /\ Alive = {2}
    /\ last.op = "drop" /\ last.f = 1
    /\ device_refs = InitialRefs

====
